---- MODULE Spec2Model ----
(***************************************************************************)
(* A model of obs_lsstCam: the coadd identifier encoder of LsstCamMapper,  *)
(* the raw composite assembler assemble_raw, and the lazily loaded         *)
(* detector table of LsstSimTranslator, and the per-channel metadata query *)
(* query_raw_amp of LsstCamMapper.                                         *)
(*                                                                         *)
(* Each group of operations has its own specification (SpecId, SpecAsm,    *)
(* SpecTr, SpecQ); the variables of the other groups stay at their initial *)
(* value.                                                                  *)
(* Every operation records its inputs and its outcome in a "last call"     *)
(* variable, so that a property of a call is a state predicate.            *)
(***************************************************************************)
EXTENDS Integers, Sequences, FiniteSets, TLC

VARIABLES
    constructed,   \* a LsstCamMapper has been constructed (class attributes _nbit_* exist)
    nFilters,      \* number of filters defined in afwImage.Filter; their ids are 0..nFilters-1
    idCall,        \* the last mapper call: operation, inputs, outcome
    pairCall,      \* two dataIds and the identifiers the mapper gives them
    ccd,           \* the Detector shared by all segments: its amplifiers' geometry, in order
    floatExtent,   \* what geom.ExtentI(int, float) does in this build
    asmCall,       \* the last assemble_raw call: inputs, geometry before it, outcome
    detectorMapping,  \* the class attribute detectorMapping of each translator class
    loads,         \* how often read_detector_ids was called for each class
    translators,   \* the translator instances: class, detector name, cached detector number
    trCall,        \* the last translator call
    qCall          \* the last query_raw_amp call: the caller's objects, the raw query, the outcome

idVars == <<constructed, nFilters, idCall, pairCall>>

asmVars == <<ccd, floatExtent, asmCall>>

trVars == <<detectorMapping, loads, translators, trCall>>

qVars == <<qCall>>

vars == <<idVars, asmVars, trVars, qVars>>

(***************************************************************************)
(* Python integers are unbounded: a shift is a multiplication, nothing     *)
(* wraps.  An identifier may pass 2^31, so a Python integer n is held as   *)
(* two limbs, n = hi * 2^16 + lo with 0 <= lo < 2^16 (hi carries the       *)
(* sign); two such records are equal exactly when the integers are.        *)
(***************************************************************************)
Limb == 2 ^ 16

norm(h, l) == [hi |-> h + (l \div Limb), lo |-> l % Limb]

pyInt(n) == norm(0, n)

\* x << n
shl(x, n) == norm(x.hi * (2 ^ n), x.lo * (2 ^ n))

\* x + k, k a small integer
add(x, k) == norm(x.hi, x.lo + k)

None == "None"

-----------------------------------------------------------------------------
(* assemble_raw: boxes, amplifier geometry and segments.                   *)
(*                                                                         *)
(* A box is its minimum corner and its dimensions; every box of the model  *)
(* has positive dimensions, where geom.BoxI(begin, extent) is the box that *)
(* begins at begin and has those dimensions.                               *)

Box(x, y, w, h) == [x |-> x, y |-> y, w |-> w, h |-> h]

getDimensions(b) == <<b.w, b.h>>

BoxI(begin, extent) == Box(begin[1], begin[2], extent[1], extent[2])

getBegin(b) == <<b.x, b.y>>

\* x // y for non-negative x and positive y
floorDiv(x, y) == x \div y

(* int(num / den * k) of the float num / den, for non-negative num and     *)
(* positive den, k: on the model's values the double product is exact      *)
(* enough that truncating it gives floor(num * k / den).                   *)
truncFloatProduct(num, den, k) == (num * k) \div den

\* the test left out
noSegments_neverEmpty(ampExps) == FALSE

(* len(ampExps) == 0                                                       *)
noSegments(ampExps) == Len(ampExps) = 0

(* amp.getRawBBox() != ampExp.getBBox()                                    *)
needsPatch(amp, ampExp) == amp.rawBBox # ampExp.bbox

\* the test passes everything
activeAreaWrong_never(amp) == FALSE

(* amp.getRawDataBBox().getDimensions() != amp.getBBox().getDimensions():  *)
(* both boxes are the geometry's; the segment is not consulted.            *)
activeAreaWrong(amp) == getDimensions(amp.rawDataBBox) # getDimensions(amp.bbox)

\* the old width kept
newHOverscanBBox_oldWidth(amp, ampExp) == amp.rawHOverscanBBox

(* The overscan boxes recomputed from the segment's dimensions w, h.       *)
newHOverscanBBox(amp, ampExp) ==
    LET bbox == amp.rawHOverscanBBox
        w == getDimensions(ampExp.bbox)[1]
    IN BoxI(getBegin(bbox), <<w - bbox.x, bbox.h>>)

newVOverscanBBox(amp, ampExp) ==
    LET bbox == amp.rawVOverscanBBox
        h == getDimensions(ampExp.bbox)[2]
    IN BoxI(getBegin(bbox), <<bbox.w, h - bbox.y>>)

\* the untrimmed box left as the geometry had it
patchBoxes_keepRawBBox(amp, ampExp) ==
    [amp EXCEPT !.rawHOverscanBBox = newHOverscanBBox(amp, ampExp),
                !.rawVOverscanBBox = newVOverscanBBox(amp, ampExp)]

(* setRawBBox, setRawHorizontalOverscanBBox, setRawVerticalOverscanBBox    *)
patchBoxes(amp, ampExp) ==
    [amp EXCEPT !.rawBBox = ampExp.bbox,
                !.rawHOverscanBBox = newHOverscanBBox(amp, ampExp),
                !.rawVOverscanBBox = newVOverscanBBox(amp, ampExp)]

(* The offset recomputed: ix = x0 // ow is an int, iy = y0 / oh a float,   *)
(* and geom.ExtentI(ix * w, iy * h) is handed an int and a float.          *)
newRawXYOffset(amp, ampExp) ==
    LET w == getDimensions(ampExp.bbox)[1]
        h == getDimensions(ampExp.bbox)[2]
        ow == getDimensions(amp.rawBBox)[1]
        oh == getDimensions(amp.rawBBox)[2]
        x0 == amp.rawXYOffset[1]
        y0 == amp.rawXYOffset[2]
    IN <<floorDiv(x0, ow) * w, truncFloatProduct(y0, oh, h)>>

\* a keyword the header does not have
NoKey == [missing |-> TRUE]

Entry(level, msg, i) == [level |-> level, msg |-> msg, amp |-> i]

(* logCmd = logger.warn if i == 0 else logger.debug, for the three IRAF    *)
(* keywords of the segment's header, against the geometry as it now is.    *)
irafLog(amp, md, i) ==
    LET logCmd == IF i = 1 THEN "warn" ELSE "debug"
    IN (IF md.DETSEC # NoKey /\ amp.bbox # md.DETSEC
        THEN <<Entry(logCmd, "DETSEC", i)>> ELSE <<>>)
       \o (IF md.DATASEC # NoKey /\ amp.rawDataBBox # md.DATASEC
           THEN <<Entry(logCmd, "DATASEC", i)>> ELSE <<>>)
       \o (IF md.BIASSEC # NoKey /\ amp.rawHOverscanBBox # md.BIASSEC
           THEN <<Entry(logCmd, "BIASSEC", i)>> ELSE <<>>)

\* a warning for every patched amplifier
patchLog_always(warned, i) == <<Entry("warn", "patching", i)>>

(* The patching message: a warning unless one was given in this call.      *)
patchLog(warned, i) == IF ~warned THEN <<Entry("warn", "patching", i)>> ELSE <<>>

(* One turn of the loop over zip(ccd, ampExps), for the amplifier at       *)
(* position i (the code's i + 1).  st carries the geometry, the warned     *)
(* flag, the log and the exception raised, if any.  geom.ExtentI is handed *)
(* a float: a build either refuses it with a TypeError, after the boxes    *)
(* have been set and before the offset is, or truncates it (mode).         *)
ampStep(st, ampExp, i, mode) ==
    LET amp == st.ccd[i]
    IN IF ~needsPatch(amp, ampExp)
       THEN [st EXCEPT !.log = @ \o irafLog(amp, ampExp.md, i)]
       ELSE IF activeAreaWrong(amp)
       THEN [st EXCEPT !.status = "RuntimeError", !.error = "activeArea", !.failedAt = i]
       ELSE LET boxed == patchBoxes(amp, ampExp)
                logged == st.log \o patchLog(st.warned, i)
            IN IF mode = "TypeError"
               THEN [st EXCEPT !.ccd[i] = boxed, !.warned = TRUE, !.log = logged,
                               !.status = "TypeError", !.error = "ExtentI",
                               !.failedAt = i]
               ELSE LET patched == [boxed EXCEPT
                                       !.rawXYOffset = newRawXYOffset(amp, ampExp)]
                    IN [st EXCEPT !.ccd[i] = patched, !.warned = TRUE,
                                  !.log = logged \o irafLog(patched, ampExp.md, i)]

RECURSIVE ampLoop(_, _, _, _)
ampLoop(st, ampExps, i, mode) ==
    IF i > Len(st.ccd) \/ i > Len(ampExps) \/ st.status # "running"
    THEN st
    ELSE ampLoop(ampStep(st, ampExps[i], i, mode), ampExps, i + 1, mode)

\* the test inverted
wcsIsSet_inverted(boresightFinite) == ~boresightFinite

(* boresight.isFinite(): setWcs, or a warning and no WCS.                  *)
wcsIsSet(boresightFinite) == boresightFinite

NoExposure == [none |-> TRUE]

(* What the call leaves: the geometry, the log, the exception or the       *)
(* exposure, and whether the call came to read the detector and to         *)
(* assemble an image.                                                      *)
callResult(st, read, assembled, exposure) ==
    [ccd |-> st.ccd, log |-> st.log, status |-> st.status, error |-> st.error,
     failedAt |-> st.failedAt, detectorRead |-> read, assembled |-> assembled,
     exposure |-> exposure]

(* After the loop: assembleCcd, setMetadata, setVisitInfo, and the WCS.    *)
afterLoop(st, boresightFinite) ==
    IF st.status # "running"
    THEN callResult(st, TRUE, FALSE, NoExposure)
    ELSE callResult([st EXCEPT !.status = "ok",
                               !.log = IF wcsIsSet(boresightFinite) THEN @
                                       ELSE @ \o <<Entry("warn", "noWcs", 0)>>],
                    TRUE, TRUE,
                    [metadata |-> TRUE, visitInfo |-> TRUE,
                     wcs |-> wcsIsSet(boresightFinite)])

(* The whole call.                                                         *)
assemble_raw(detector, ampExps, boresightFinite, mode) ==
    LET st0 == [ccd |-> detector, warned |-> FALSE, log |-> <<>>, status |-> "running",
                error |-> None, failedAt |-> 0]
    IN IF noSegments(ampExps)
       THEN callResult([st0 EXCEPT !.status = "RuntimeError", !.error = "noSegments"],
                       FALSE, FALSE, NoExposure)
       ELSE IF Len(ampExps) = 0
       THEN \* ampExps[0] of an empty list
            callResult([st0 EXCEPT !.status = "IndexError", !.error = "ampExps[0]"],
                       FALSE, FALSE, NoExposure)
       ELSE afterLoop(ampLoop(st0, ampExps, 1, mode), boresightFinite)

-----------------------------------------------------------------------------
(* The detector and the segments the assembler is run on.                  *)

\* the places of the detector's amplifiers on the diagonal of the readout grid
AmpPlaces == <<0, 1>>

NumAmps == Len(AmpPlaces)

\* rows and columns a segment may have beyond the geometry's untrimmed box
MaxGrow == 1

ActiveW == 2

ActiveH == 2

SerialOverscan == 2

ParallelOverscan == 1

RawW == ActiveW + SerialOverscan

RawH == ActiveH + ParallelOverscan

(* The geometry of amplifier i as the camera description gives it, at its  *)
(* place on the diagonal of the readout grid.  areaOk: the                 *)
(* trimmed box has the dimensions of the raw data box; gap: pixels between *)
(* neighbouring untrimmed sections in the untrimmed image.                 *)
cameraAmp(i, areaOk, gap) ==
    [bbox |-> Box(AmpPlaces[i] * ActiveW, AmpPlaces[i] * ActiveH,
                  IF areaOk THEN ActiveW ELSE ActiveW + 1, ActiveH),
     rawBBox |-> Box(0, 0, RawW, RawH),
     rawDataBBox |-> Box(0, 0, ActiveW, ActiveH),
     rawHOverscanBBox |-> Box(ActiveW, 0, SerialOverscan, ActiveH),
     rawVOverscanBBox |-> Box(0, ActiveH, ActiveW, ParallelOverscan),
     rawXYOffset |-> <<AmpPlaces[i] * (RawW + gap), AmpPlaces[i] * (RawH + gap)>>]

\* at most one amplifier (badAmp, 0 for none) has a trimmed box of the wrong size
cameraDetector(badAmp, gap) == [i \in 1 .. NumAmps |-> cameraAmp(i, i # badAmp, gap)]

\* the headers a segment may carry: no IRAF keywords; the camera description's
\* boxes; those boxes, but a data section one column wider
HeaderKinds == {"noKeys", "camera", "widerData"}

segmentHeader(i, kind) ==
    IF kind = "noKeys"
    THEN [DETSEC |-> NoKey, DATASEC |-> NoKey, BIASSEC |-> NoKey]
    ELSE [DETSEC |-> cameraAmp(i, TRUE, 0).bbox,
          DATASEC |-> IF kind = "camera" THEN cameraAmp(i, TRUE, 0).rawDataBBox
                      ELSE Box(0, 0, ActiveW + 1, ActiveH),
          BIASSEC |-> cameraAmp(i, TRUE, 0).rawHOverscanBBox]

\* the dimensions a segment's image may have
SegmentDims ==
    {<<RawW, RawH>>} \cup {<<RawW + g, RawH>> : g \in 1 .. MaxGrow}
        \cup {<<RawW + MaxGrow, RawH + MaxGrow>>}

\* a raw_amp collection: empty, or one segment per amplifier
SegmentLists(kind) ==
    {<<>>} \cup
    {[i \in 1 .. NumAmps |->
          [bbox |-> Box(0, 0, d[i][1], d[i][2]), md |-> segmentHeader(i, kind)]] :
       d \in [1 .. NumAmps -> SegmentDims]}

NoAsmCall == [op |-> "none"]

AsmStart ==
    /\ ccd = cameraDetector(0, 0)
    /\ floatExtent = "truncate"
    /\ asmCall = NoAsmCall

AsmInit ==
    /\ \E badAmp \in 0 .. NumAmps, gap \in {0, 1} : ccd = cameraDetector(badAmp, gap)
    /\ floatExtent \in {"truncate", "TypeError"}
    /\ asmCall = NoAsmCall

(* The call before this one was an assemble_raw of the same segments that  *)
(* got through its amplifier loop.                                         *)
repeatsCompleted(last, ampExps) ==
    /\ last.op = "assemble_raw"
    /\ last.status = "ok"
    /\ last.ampExps = ampExps

AssembleRaw ==
    /\ \E kind \in HeaderKinds, boresightFinite \in BOOLEAN :
       \E ampExps \in SegmentLists(kind) :
       \E r \in {assemble_raw(ccd, ampExps, boresightFinite, floatExtent)} :
             /\ ccd' = r.ccd
             /\ asmCall' = [op |-> "assemble_raw", ampExps |-> ampExps,
                            boresightFinite |-> boresightFinite, before |-> ccd,
                            status |-> r.status, error |-> r.error,
                            failedAt |-> r.failedAt, log |-> r.log,
                            detectorRead |-> r.detectorRead, assembled |-> r.assembled,
                            exposure |-> r.exposure,
                            repeat |-> repeatsCompleted(asmCall, ampExps),
                            repeatOfPatching |-> /\ repeatsCompleted(asmCall, ampExps)
                                                 /\ asmCall.before # ccd]
    /\ UNCHANGED <<floatExtent, idVars, trVars, qVars>>

NextAsm == AssembleRaw

-----------------------------------------------------------------------------
(* LsstSimTranslator.to_detector_num and the class attribute               *)
(* detectorMapping.                                                        *)

BaseClass == "LsstSimTranslator"

\* the translator classes: the base class and two simulators derived from it
Classes == {BaseClass, "ImsimTranslator", "PhosimTranslator"}

(* cameraPolicyFile: None in LsstSimTranslator; a derived class names its  *)
(* camera's policy file.                                                   *)
cameraPolicyFile(c) ==
    IF c = BaseClass THEN None
    ELSE IF c = "ImsimTranslator" THEN "policy/imsim.yaml" ELSE "policy/phosim.yaml"

(* read_detector_ids(policyFile): the detector numbers of the policy file, *)
(* by full detector name.                                                  *)
read_detector_ids(policyFile) ==
    IF policyFile = "policy/imsim.yaml"
    THEN [n \in {"R01_S00", "R01_S01"} |-> IF n = "R01_S00" THEN 0 ELSE 1]
    ELSE [n \in {"R01_S00", "R01_S01"} |-> IF n = "R01_S00" THEN 9 ELSE 10]

\* f"{raft}_{detector}" of the headers translated: two detectors of the
\* cameras and one the policy files do not list
FullNames == {"R01_S00", "R01_S01", "R99_S99"}

\* a class without an attribute of its own; the value None; a value
Inherited == [kind |-> "inherited"]

NoneValue == [kind |-> "None"]

Value(v) == [kind |-> "value", v |-> v]

(* self.detectorMapping: the attribute of the instance's class, or of      *)
(* LsstSimTranslator when the class has none of its own.                   *)
getDetectorMapping(attrs, c) == IF attrs[c] # Inherited THEN attrs[c] ELSE attrs[BaseClass]

\* the table read on every call
mappingIsNone_always(m) == TRUE

(* self.detectorMapping is None                                            *)
mappingIsNone(m) == m = NoneValue

(* The body of to_detector_num for an instance of class c whose header     *)
(* gives fullname: the number, the class attributes after the call, and    *)
(* whether read_detector_ids was called.                                   *)
to_detector_num(attrs, c, fullname) ==
    IF cameraPolicyFile(c) = None
    THEN [num |-> NoneValue, attrs |-> attrs, loaded |-> FALSE, warned |-> FALSE]
    ELSE LET load == mappingIsNone(getDetectorMapping(attrs, c))
             attrs1 == IF load
                       THEN [attrs EXCEPT
                                ![c] = Value(read_detector_ids(cameraPolicyFile(c)))]
                       ELSE attrs
             mapping == getDetectorMapping(attrs1, c).v
         IN IF fullname \in DOMAIN mapping
            THEN [num |-> Value(mapping[fullname]), attrs |-> attrs1, loaded |-> load,
                  warned |-> FALSE]
            ELSE [num |-> NoneValue, attrs |-> attrs1, loaded |-> load, warned |-> TRUE]

\* translator instances alive at once
MaxTranslators == 3

\* the count of read_detector_ids calls per class is followed up to this
MaxLoads == 3

NotCached == [kind |-> "notCached"]

NoTrCall == [op |-> "none"]

TrStart ==
    /\ detectorMapping = [c \in Classes |-> IF c = BaseClass THEN NoneValue ELSE Inherited]
    /\ loads = [c \in Classes |-> 0]
    /\ translators = <<>>
    /\ trCall = NoTrCall

(* A translator is made for a header.                                      *)
NewTranslator ==
    /\ Len(translators) < MaxTranslators
    /\ \E c \in Classes, fullname \in FullNames :
          translators' = Append(translators,
                                [cls |-> c, fullname |-> fullname, cache |-> NotCached])
    /\ trCall' = [op |-> "new"]
    /\ UNCHANGED <<detectorMapping, loads, idVars, asmVars, qVars>>

(* to_detector_num under @cache_translation: the body runs on the first    *)
(* call of an instance, later calls return the value kept.                 *)
ToDetectorNum ==
    \E t \in 1 .. Len(translators) :
       LET self == translators[t]
       IN IF self.cache # NotCached
          THEN /\ trCall' = [op |-> "to_detector_num", t |-> t, cls |-> self.cls,
                             num |-> self.cache, ranBody |-> FALSE, loaded |-> FALSE]
               /\ UNCHANGED <<detectorMapping, loads, translators, idVars, asmVars,
                              qVars>>
          ELSE LET r == to_detector_num(detectorMapping, self.cls, self.fullname)
               IN /\ detectorMapping' = r.attrs
                  /\ loads' = IF r.loaded /\ loads[self.cls] < MaxLoads
                              THEN [loads EXCEPT ![self.cls] = @ + 1] ELSE loads
                  /\ translators' = [translators EXCEPT ![t].cache = r.num]
                  /\ trCall' = [op |-> "to_detector_num", t |-> t, cls |-> self.cls,
                                num |-> r.num, ranBody |-> TRUE, loaded |-> r.loaded]
                  /\ UNCHANGED <<idVars, asmVars, qVars>>

NextTr ==
    \/ NewTranslator
    \/ ToDetectorNum

-----------------------------------------------------------------------------
(* LsstCamMapper.query_raw_amp.  A format is a sequence of keys, a dataId  *)
(* a function from keys to values, a raw tuple a sequence of values.       *)
(* Positions are counted from 1 where Python counts from 0; channelIndex 0 *)
(* stands for None.                                                        *)

\* number of possible channels, 1..nChannel
nChannel == 16

\* channel 0 let through
channelOutOfRange_zeroAllowed(channel) == channel > nChannel \/ channel < 0

(* channel > nChannel or channel < 1                                       *)
channelOutOfRange(channel) == channel > nChannel \/ channel < 1

\* dict.pop(key) on d: the dict left
dictPop(d, key) == [k \in DOMAIN d \ {key} |-> d[k]]

\* list.index(x): the first position of x
listIndex(s, x) == CHOOSE k \in 1 .. Len(s) : s[k] = x /\ \A j \in 1 .. (k - 1) : s[j] # x

\* list.pop(k): the list left
listPop(s, k) == SubSeq(s, 1, k - 1) \o SubSeq(s, k + 1, Len(s))

\* the value put at the end, whatever the position
listInsert_atEnd(s, k, x) == Append(s, x)

\* list.insert(k, x) for a position within the list or just past its end
listInsert(s, k, x) == SubSeq(s, 1, k - 1) \o <<x>> \o SubSeq(s, k, Len(s))

\* a value of a tuple: the key it belongs to and the value proper
Val(key, v) == [key |-> key, v |-> v]

(* self.query_raw(format, dataId), forwarded to the registry lookup of     *)
(* the "_raw" dataset: one tuple per matching row, one value per key of    *)
(* the format asked for.  The registry has nRows matching rows.            *)
query_raw(format, dataId, nRows) ==
    [r \in 1 .. nRows |-> [j \in 1 .. Len(format) |-> Val(format[j], r)]]

(* The inner loop: value with each channel of channels put in at           *)
(* channelIndex, in the order of channels.                                 *)
RECURSIVE perChannel(_, _, _)
perChannel(value, channels, channelIndex) ==
    IF channels = <<>> THEN <<>>
    ELSE <<listInsert(value, channelIndex, Val("channel", Head(channels)))>>
             \o perChannel(value, Tail(channels), channelIndex)

(* The outer loop over the raw query's tuples.                             *)
RECURSIVE collectDids(_, _, _)
collectDids(values, channels, channelIndex) ==
    IF values = <<>> THEN <<>>
    ELSE (IF channelIndex = 0 THEN <<Head(values)>>
          ELSE perChannel(Head(values), channels, channelIndex))
             \o collectDids(Tail(values), channels, channelIndex)

(* The whole call.  callerFormat and callerDataId are the caller's objects *)
(* as the call leaves them: the method pops from copies (dataId.copy(),    *)
(* list(format)) bound to its own names.                                   *)
query_raw_amp(format, dataId, nRows) ==
    LET hasChannel == "channel" \in DOMAIN dataId
        dataId1 == IF hasChannel THEN dictPop(dataId, "channel") ELSE dataId
        channels == IF hasChannel THEN <<dataId["channel"]>>
                    ELSE [c \in 1 .. nChannel |-> c]
        inFormat == \E k \in 1 .. Len(format) : format[k] = "channel"
        channelIndex == IF inFormat THEN listIndex(format, "channel") ELSE 0
        format1 == IF inFormat THEN listPop(format, channelIndex) ELSE format
    IN IF hasChannel /\ channelOutOfRange(dataId["channel"])
       THEN [status |-> "ValueError", queried |-> FALSE, queryFormat |-> <<>>,
             queryDataId |-> <<>>, channelIndex |-> 0, raw |-> <<>>, dids |-> <<>>,
             callerFormat |-> format, callerDataId |-> dataId]
       ELSE [status |-> "ok", queried |-> TRUE, queryFormat |-> format1,
             queryDataId |-> dataId1, channelIndex |-> channelIndex,
             raw |-> query_raw(format1, dataId1, nRows),
             dids |-> collectDids(query_raw(format1, dataId1, nRows), channels,
                                  channelIndex),
             callerFormat |-> format, callerDataId |-> dataId]

\* the keys a format may ask for
FormatKeys == {"visit", "detector", "channel"}

\* the longest format asked for
MaxFormat == 3

Formats == UNION {[1 .. n -> FormatKeys] : n \in 0 .. MaxFormat}

\* the channels a dataId may name: both ends of 1..nChannel, one within,
\* the first past each end, and a negative one
ChannelInputs == {-1, 0, 1, 7, nChannel, nChannel + 1}

\* a dataId: a visit or none, a channel or none
DataIds ==
    {[k \in {} |-> 0], [k \in {"visit"} |-> 1]}
        \cup {[k \in {"channel"} |-> c] : c \in ChannelInputs}
        \cup {[k \in {"visit", "channel"} |-> IF k = "visit" THEN 1 ELSE c] :
                 c \in ChannelInputs}

\* the most rows the registry has for a dataId
MaxRows == 2

NoQCall == [op |-> "none"]

QStart == qCall = NoQCall

(* query_raw_amp keeps nothing from one call to the next: a behaviour is   *)
(* one call, on arguments and a registry drawn at the start.               *)
QInit ==
    \E format \in Formats, dataId \in DataIds, nRows \in 0 .. MaxRows :
       qCall = [op |-> "pending", format |-> format, dataId |-> dataId, nRows |-> nRows]

QueryRawAmp ==
    /\ qCall.op = "pending"
    /\ \E r \in {query_raw_amp(qCall.format, qCall.dataId, qCall.nRows)} :
          qCall' = [op |-> "query_raw_amp", format |-> qCall.format,
                    dataId |-> qCall.dataId, nRows |-> qCall.nRows,
                    status |-> r.status, queried |-> r.queried,
                    queryFormat |-> r.queryFormat, queryDataId |-> r.queryDataId,
                    channelIndex |-> r.channelIndex, raw |-> r.raw, dids |-> r.dids,
                    callerFormat |-> r.callerFormat, callerDataId |-> r.callerDataId]
    /\ UNCHANGED <<idVars, asmVars, trVars>>

NextQ == QueryRawAmp

-----------------------------------------------------------------------------
(* LsstCamMapper.__init__: the bit widths of the identifier fields.        *)

nbit_tract == 16

nbit_patch == 5

nbit_filter == 6

\* the filter field left out of the sum
nbit_id_noFilter == 64 - (nbit_tract + 2 * nbit_patch)

nbit_id == 64 - (nbit_tract + 2 * nbit_patch + nbit_filter)

(* defineFilters: resetFilters, then nine defineFilter calls (ids 0..8);   *)
(* two of them carry aliases, three in all, which Filter.getNames may or   *)
(* may not list.                                                           *)
nDefinedFilters == 9

nDefinedAliases == 3

(* The check that closes __init__: more names than fit the filter field.   *)
initRaises(nNames) == nNames >= 2 ^ nbit_filter

-----------------------------------------------------------------------------
(* LsstCamMapper._computeCoaddExposureId                                   *)

\* the upper end tested with > instead of >=
tractOutOfRange_offByOne(tract) == tract < 0 \/ tract > 2 ^ nbit_tract

tractOutOfRange(tract) == tract < 0 \/ tract >= 2 ^ nbit_tract

patchOutOfRange(p) == p < 0 \/ p >= 2 ^ nbit_patch

\* patchX added without the second shift
packOid_oneShift(tract, patchX, patchY) ==
    add(add(shl(pyInt(tract), nbit_patch), patchX), patchY)

packOid(tract, patchX, patchY) ==
    add(shl(add(shl(pyInt(tract), nbit_patch), patchX), nbit_patch), patchY)

\* the tract and patch part shifted one bit short
packFilter_narrowShift(oid, filterId) == add(shl(oid, nbit_filter - 1), filterId)

packFilter(oid, filterId) == add(shl(oid, nbit_filter), filterId)

(* dataId = [tract, patch = (patchX, patchY), filter]; the filter of the   *)
(* dataId is looked up in afwImage.Filter and stands here as its id.       *)
computeCoaddExposureId(tract, patchX, patchY, singleFilter, filterId) ==
    IF tractOutOfRange(tract)
    THEN [status |-> "RuntimeError", value |-> None]
    ELSE IF patchOutOfRange(patchX) \/ patchOutOfRange(patchY)
    THEN [status |-> "RuntimeError", value |-> None]
    ELSE IF singleFilter
    THEN [status |-> "ok", value |-> packFilter(packOid(tract, patchX, patchY), filterId)]
    ELSE [status |-> "ok", value |-> packOid(tract, patchX, patchY)]

bypass_deepCoaddId(tract, patchX, patchY, filterId) ==
    computeCoaddExposureId(tract, patchX, patchY, TRUE, filterId)

bypass_deepMergedCoaddId(tract, patchX, patchY) ==
    computeCoaddExposureId(tract, patchX, patchY, FALSE, None)

bypass_deepCoaddId_bits == 64 - nbit_id

bypass_deepMergedCoaddId_bits == 64 - nbit_id

-----------------------------------------------------------------------------
(* Inputs of the identifier operations.                                    *)

\* the filter registry is followed up to this many filters
MaxFilters == 66

\* the ends of each field's range, the first value past an end, and the
\* values of the worked examples (tract 1, patch 2,3; tract 0, patch 0,0)
TractInputs == {-1, 0, 1, 2 ^ nbit_tract - 1, 2 ^ nbit_tract}

PatchXInputs == {-1, 0, 2, 2 ^ nbit_patch - 1}

PatchYInputs == {0, 3, 2 ^ nbit_patch - 1, 2 ^ nbit_patch}

\* the filters a dataId names: the sixth and the last one defined
FilterInputs == {5, nFilters - 1}

NoCall == [op |-> "none", tract |-> None, patchX |-> None, patchY |-> None,
           filterId |-> None, status |-> None, value |-> None]

NoPair == [op |-> "none"]

IdStart ==
    /\ constructed = FALSE
    /\ nFilters = 0
    /\ idCall = NoCall
    /\ pairCall = NoPair

InitId == IdStart /\ AsmStart /\ TrStart /\ QStart

(* LsstCamMapper(): defineFilters resets the registry, the class           *)
(* attributes are set, and the number of names is checked.                 *)
Construct ==
    /\ nFilters' = nDefinedFilters
    /\ \E nNames \in {nDefinedFilters, nDefinedFilters + nDefinedAliases} :
          /\ constructed' = (constructed \/ ~initRaises(nNames))
          /\ idCall' = [NoCall EXCEPT !.op = "init",
                           !.status = IF initRaises(nNames) THEN "RuntimeError" ELSE "ok"]
    /\ UNCHANGED <<pairCall, asmVars, trVars, qVars>>

(* afwImageUtils.defineFilter called once more, by anyone, at any time.    *)
DefineFilter ==
    /\ nFilters < MaxFilters
    /\ nFilters' = nFilters + 1
    /\ idCall' = [NoCall EXCEPT !.op = "defineFilter", !.status = "ok"]
    /\ UNCHANGED <<constructed, pairCall, asmVars, trVars, qVars>>

DeepCoaddId ==
    /\ constructed
    /\ \E tract \in TractInputs, patchX \in PatchXInputs, patchY \in PatchYInputs,
          filterId \in FilterInputs :
          LET r == bypass_deepCoaddId(tract, patchX, patchY, filterId)
          IN idCall' = [op |-> "deepCoaddId", tract |-> tract, patchX |-> patchX,
                        patchY |-> patchY, filterId |-> filterId,
                        status |-> r.status, value |-> r.value]
    /\ UNCHANGED <<constructed, nFilters, pairCall, asmVars, trVars, qVars>>

DeepMergedCoaddId ==
    /\ constructed
    /\ \E tract \in TractInputs, patchX \in PatchXInputs, patchY \in PatchYInputs :
          LET r == bypass_deepMergedCoaddId(tract, patchX, patchY)
          IN idCall' = [op |-> "deepMergedCoaddId", tract |-> tract, patchX |-> patchX,
                        patchY |-> patchY, filterId |-> None,
                        status |-> r.status, value |-> r.value]
    /\ UNCHANGED <<constructed, nFilters, pairCall, asmVars, trVars, qVars>>

DeepCoaddIdBits ==
    /\ constructed
    /\ idCall' = [NoCall EXCEPT !.op = "deepCoaddId_bits", !.status = "ok",
                     !.value = bypass_deepCoaddId_bits]
    /\ UNCHANGED <<constructed, nFilters, pairCall, asmVars, trVars, qVars>>

DeepMergedCoaddIdBits ==
    /\ constructed
    /\ idCall' = [NoCall EXCEPT !.op = "deepMergedCoaddId_bits", !.status = "ok",
                     !.value = bypass_deepMergedCoaddId_bits]
    /\ UNCHANGED <<constructed, nFilters, pairCall, asmVars, trVars, qVars>>

NextId ==
    \/ Construct
    \/ DefineFilter
    \/ DeepCoaddId
    \/ DeepMergedCoaddId
    \/ DeepCoaddIdBits
    \/ DeepMergedCoaddIdBits

SpecId == InitId /\ [][NextId]_vars

\* in-range values of each field: both ends of the range and the value next
\* to the lower end, so that neighbouring fields meet
PairTracts == {0, 1, 2 ^ nbit_tract - 1}

PairPatches == {0, 1, 2 ^ nbit_patch - 1}

PairFilters == {0, 1, 2 ^ nbit_filter - 1}

PairDataIds ==
    [tract : PairTracts, patchX : PairPatches, patchY : PairPatches,
     filterId : PairFilters]

(* Two dataIds are drawn at the start; the mapper has been constructed and *)
(* the filter registry holds the filters with ids 0 .. 2^6 - 1.            *)
PairInit ==
    /\ constructed = TRUE
    /\ nFilters = 2 ^ nbit_filter
    /\ idCall = NoCall
    /\ \E a \in PairDataIds, b \in PairDataIds : pairCall = [op |-> "pending", a |-> a, b |-> b]

(* deepCoaddId and deepMergedCoaddId asked for both dataIds.               *)
EncodePair ==
    /\ constructed
    /\ pairCall.op = "pending"
    /\ pairCall.a.filterId < nFilters /\ pairCall.b.filterId < nFilters
    /\ LET a == pairCall.a
           b == pairCall.b
       IN pairCall' =
             [op |-> "encoded", a |-> a, b |-> b,
              deepA |-> bypass_deepCoaddId(a.tract, a.patchX, a.patchY, a.filterId),
              deepB |-> bypass_deepCoaddId(b.tract, b.patchX, b.patchY, b.filterId),
              mergedA |-> bypass_deepMergedCoaddId(a.tract, a.patchX, a.patchY),
              mergedB |-> bypass_deepMergedCoaddId(b.tract, b.patchX, b.patchY)]
    /\ UNCHANGED <<constructed, nFilters, idCall, asmVars, trVars, qVars>>

NextPair == EncodePair

InitPair == PairInit /\ AsmStart /\ TrStart /\ QStart

SpecPair == InitPair /\ [][NextPair]_vars

InitAsm == AsmInit /\ IdStart /\ TrStart /\ QStart

SpecAsm == InitAsm /\ [][NextAsm]_vars

InitTr == TrStart /\ IdStart /\ AsmStart /\ QStart

SpecTr == InitTr /\ [][NextTr]_vars

InitQ == QInit /\ IdStart /\ AsmStart /\ TrStart

SpecQ == InitQ /\ [][NextQ]_vars

-----------------------------------------------------------------------------
(* Properties of assemble_raw, checked under SpecAsm.  asmCall.before is   *)
(* the geometry the call found, ccd the geometry it left.                  *)

isAssemble == asmCall.op = "assemble_raw"

Amps == 1 .. NumAmps

\* the loop came to amplifier i
reached(i) == asmCall.detectorRead /\ (asmCall.failedAt = 0 \/ i <= asmCall.failedAt)

\* the segment's box is not the untrimmed box the geometry had
mismatched(i) == asmCall.before[i].rawBBox # asmCall.ampExps[i].bbox

\* the call changed the untrimmed box of amplifier i
patched(i) == ccd[i].rawBBox # asmCall.before[i].rawBBox

patchingEntries == {k \in 1 .. Len(asmCall.log) : asmCall.log[k].msg = "patching"}

(* C1: with no segments the call raises RuntimeError before the detector   *)
(* is read, before any geometry is changed and before any image is         *)
(* assembled, and returns no exposure.                                     *)
C1_EmptyFails ==
    (isAssemble /\ Len(asmCall.ampExps) = 0) =>
        /\ asmCall.status = "RuntimeError"
        /\ asmCall.error = "noSegments"
        /\ ~asmCall.detectorRead
        /\ ~asmCall.assembled
        /\ asmCall.exposure = NoExposure
        /\ asmCall.log = <<>>
        /\ ccd = asmCall.before

C1_Witness ==
    /\ isAssemble
    /\ Len(asmCall.ampExps) = 0
    /\ asmCall.status = "RuntimeError"

(* C6 as stated: a mismatched amplifier whose segment has an active area   *)
(* (DATASEC) of another size than the geometry's makes the call fail       *)
(* instead of being patched.                                               *)
C6_DataActiveAreaChecked ==
    isAssemble =>
        \A i \in 1 .. Len(asmCall.ampExps) :
            (/\ reached(i)
             /\ mismatched(i)
             /\ asmCall.ampExps[i].md.DATASEC # NoKey
             /\ <<asmCall.ampExps[i].md.DATASEC.w, asmCall.ampExps[i].md.DATASEC.h>>
                   # <<asmCall.before[i].rawDataBBox.w, asmCall.before[i].rawDataBBox.h>>)
            => (asmCall.status = "RuntimeError" /\ ~patched(i))

(* C6 amended: a mismatched amplifier whose geometry gives its raw data    *)
(* box another size than its trimmed box makes the call fail with          *)
(* RuntimeError at that amplifier, which is left as it was; an amplifier   *)
(* is patched only when the two geometry boxes have the same size.         *)
C6_GeometryActiveAreaChecked ==
    isAssemble =>
        \A i \in 1 .. Len(asmCall.ampExps) :
            LET g == asmCall.before[i]
                sameSize == g.rawDataBBox.w = g.bbox.w /\ g.rawDataBBox.h = g.bbox.h
            IN /\ (reached(i) /\ mismatched(i) /\ ~sameSize) =>
                     /\ asmCall.status = "RuntimeError"
                     /\ asmCall.error = "activeArea"
                     /\ asmCall.failedAt = i
                     /\ ccd[i] = g
               /\ ccd[i] # g => (mismatched(i) /\ sameSize)

C6_Witness ==
    /\ isAssemble
    /\ asmCall.status = "RuntimeError"
    /\ asmCall.error = "activeArea"
    /\ asmCall.failedAt = 2
    /\ patched(1)

(* C7 as stated: for a patched amplifier the new horizontal overscan box   *)
(* spans the full height, and the new vertical overscan box the full       *)
(* width, of the segment's box, which is the amplifier's untrimmed box.    *)
C7_OverscanSpansSegment ==
    isAssemble =>
        \A i \in 1 .. Len(asmCall.ampExps) :
            patched(i) =>
                /\ ccd[i].rawBBox = asmCall.ampExps[i].bbox
                /\ ccd[i].rawHOverscanBBox.y = asmCall.ampExps[i].bbox.y
                /\ ccd[i].rawHOverscanBBox.h = asmCall.ampExps[i].bbox.h
                /\ ccd[i].rawVOverscanBBox.x = asmCall.ampExps[i].bbox.x
                /\ ccd[i].rawVOverscanBBox.w = asmCall.ampExps[i].bbox.w

(* C7 amended: for a patched amplifier whose segment begins at (0, 0) and  *)
(* reaches past the first column of the old horizontal and the first row   *)
(* of the old vertical overscan box, the untrimmed box is the segment's    *)
(* box; the new horizontal overscan box keeps the old one's corner and     *)
(* height and ends at the segment's last column; the new vertical overscan *)
(* box keeps the old one's corner and width and ends at the segment's last *)
(* row.                                                                    *)
C7_OverscanReachesEdge ==
    isAssemble =>
        \A i \in 1 .. Len(asmCall.ampExps) :
            patched(i) =>
                LET old == asmCall.before[i]
                    new == ccd[i]
                    seg == asmCall.ampExps[i].bbox
                IN /\ new.rawBBox = seg
                   /\ new.rawHOverscanBBox.x = old.rawHOverscanBBox.x
                   /\ new.rawHOverscanBBox.y = old.rawHOverscanBBox.y
                   /\ new.rawHOverscanBBox.h = old.rawHOverscanBBox.h
                   /\ new.rawHOverscanBBox.x + new.rawHOverscanBBox.w = seg.x + seg.w
                   /\ new.rawVOverscanBBox.x = old.rawVOverscanBBox.x
                   /\ new.rawVOverscanBBox.y = old.rawVOverscanBBox.y
                   /\ new.rawVOverscanBBox.w = old.rawVOverscanBBox.w
                   /\ new.rawVOverscanBBox.y + new.rawVOverscanBBox.h = seg.y + seg.h

C7_Witness ==
    /\ isAssemble
    /\ asmCall.status = "ok"
    /\ patched(2)
    /\ asmCall.ampExps[2].bbox.h # asmCall.before[2].rawBBox.h

(* C8: a call that gets past the loop returns the exposure with metadata   *)
(* and visit info, with a WCS exactly when the boresight is finite; when   *)
(* it is not, the call ends with a warning and without a WCS.  A call that *)
(* fails does so for the segments or the geometry, never the boresight.    *)
C8_WcsIffBoresightFinite ==
    isAssemble =>
        /\ asmCall.status = "ok" =>
              /\ asmCall.exposure # NoExposure
              /\ asmCall.exposure.metadata
              /\ asmCall.exposure.visitInfo
              /\ asmCall.exposure.wcs <=> asmCall.boresightFinite
              /\ ~asmCall.boresightFinite =>
                    asmCall.log[Len(asmCall.log)] = [level |-> "warn", msg |-> "noWcs", amp |-> 0]
              /\ asmCall.boresightFinite =>
                    \A k \in 1 .. Len(asmCall.log) : asmCall.log[k].msg # "noWcs"
        /\ asmCall.status # "ok" =>
              /\ asmCall.exposure = NoExposure
              /\ asmCall.error \in {"noSegments", "activeArea", "ExtentI"}
        /\ (asmCall.status = "ok") <=>
              (/\ Len(asmCall.ampExps) > 0
               /\ \A i \in 1 .. Len(asmCall.ampExps) :
                     mismatched(i) =>
                        /\ asmCall.before[i].rawDataBBox.w = asmCall.before[i].bbox.w
                        /\ asmCall.before[i].rawDataBBox.h = asmCall.before[i].bbox.h
                        /\ floatExtent # "TypeError")

C8_Witness ==
    /\ isAssemble
    /\ asmCall.status = "ok"
    /\ ~asmCall.boresightFinite
    /\ ~asmCall.exposure.wcs

(* C9 as stated: the patching message is a warning for the first           *)
(* mismatched amplifier and a debug message for every later one.           *)
C9_LaterPatchesLoggedAtDebug ==
    (isAssemble /\ asmCall.status = "ok") =>
        \A i \in 1 .. Len(asmCall.ampExps) :
            mismatched(i) =>
                \E k \in patchingEntries :
                    /\ asmCall.log[k].amp = i
                    /\ asmCall.log[k].level =
                          (IF \A j \in 1 .. (i - 1) : ~mismatched(j) THEN "warn" ELSE "debug")

(* C9 amended: in a call that patches an amplifier the patching message is *)
(* logged exactly once, at warning level, for the first amplifier patched; *)
(* for later mismatched amplifiers it is not logged at any level; a call   *)
(* that patches nothing does not log it.                                   *)
C9_PatchingWarnedOnce ==
    isAssemble =>
        LET P == {i \in 1 .. Len(asmCall.ampExps) : patched(i)}
        IN /\ P = {} => patchingEntries = {}
           /\ P # {} =>
                 /\ Cardinality(patchingEntries) = 1
                 /\ \A k \in patchingEntries :
                       /\ asmCall.log[k].level = "warn"
                       /\ asmCall.log[k].amp \in P
                       /\ \A j \in P : asmCall.log[k].amp <= j

C9_Witness ==
    /\ isAssemble
    /\ asmCall.status = "ok"
    /\ patched(1)
    /\ patched(2)
    /\ Cardinality(patchingEntries) = 1

(* C14: a call over the segments of the call before it, which got through *)
(* its amplifier loop, finds every amplifier's untrimmed box equal to its  *)
(* segment's box, patches nothing, logs no patching message and leaves the *)
(* whole geometry (untrimmed box, overscan boxes, offset) as it found it.  *)
C14_RepeatPatchesNothing ==
    (isAssemble /\ asmCall.repeat) =>
        /\ \A i \in 1 .. Len(asmCall.ampExps) :
              asmCall.before[i].rawBBox = asmCall.ampExps[i].bbox
        /\ patchingEntries = {}
        /\ ccd = asmCall.before
        /\ asmCall.status = "ok"

C14_Witness ==
    /\ isAssemble
    /\ asmCall.repeat
    /\ asmCall.repeatOfPatching
    /\ asmCall.ampExps[2].bbox.w > RawW
    /\ asmCall.ampExps[2].bbox.h > RawH

(* C12: for a patched amplifier with old untrimmed size (ow, oh), old      *)
(* offset (x0, y0) and segment size (w, h), the new offset is              *)
(* ((x0 div ow) * w, (y0 div oh) * h), floor division on both axes, and so *)
(* a multiple of the new untrimmed size on each axis.                      *)
C12_OffsetFloorOnBothAxes ==
    isAssemble =>
        \A i \in 1 .. Len(asmCall.ampExps) :
            patched(i) =>
                LET old == asmCall.before[i]
                    seg == asmCall.ampExps[i].bbox
                    x0 == old.rawXYOffset[1]
                    y0 == old.rawXYOffset[2]
                IN /\ ccd[i].rawXYOffset =
                         <<(x0 \div old.rawBBox.w) * seg.w, (y0 \div old.rawBBox.h) * seg.h>>
                   /\ ccd[i].rawXYOffset[1] % ccd[i].rawBBox.w = 0
                   /\ ccd[i].rawXYOffset[2] % ccd[i].rawBBox.h = 0

-----------------------------------------------------------------------------
(* Properties of the identifier encoder, checked under SpecId.             *)

isIdOp == idCall.op \in {"deepCoaddId", "deepMergedCoaddId"}

tractInRange == idCall.tract \in 0 .. (2 ^ 16 - 1)

patchInRange == idCall.patchX \in 0 .. (2 ^ 5 - 1) /\ idCall.patchY \in 0 .. (2 ^ 5 - 1)

\* x < 2^k for a two-limb integer x and k >= 16
below2pow(x, k) == x.hi < 2 ^ (k - 16)

(* C2: deepCoaddId and deepMergedCoaddId raise RuntimeError exactly when   *)
(* tract is outside [0, 2^16) or patchX or patchY is outside [0, 2^5);     *)
(* otherwise they return an identifier.                                    *)
C2_RaisesIffOutOfRange ==
    isIdOp =>
        /\ (idCall.status = "RuntimeError") <=> ~(tractInRange /\ patchInRange)
        /\ (idCall.status = "ok") <=> (tractInRange /\ patchInRange)
        /\ idCall.status = "RuntimeError" => idCall.value = None

C2_Witness ==
    /\ idCall.op = "deepMergedCoaddId"
    /\ idCall.tract = 2 ^ 16
    /\ patchInRange
    /\ idCall.status = "RuntimeError"

(* C3: in range, deepMergedCoaddId returns (tract*2^5 + patchX)*2^5 +      *)
(* patchY and deepCoaddId returns that value * 2^6 + filterId; tract 1,    *)
(* patch (2,3) gives 1091 and tract 0, patch (0,0), filter 5 gives 5.      *)
C3_PackedValue ==
    (isIdOp /\ tractInRange /\ patchInRange) =>
        LET m == (idCall.tract * (2 ^ 5) + idCall.patchX) * (2 ^ 5) + idCall.patchY
            v == idCall.value
            \* m * 2^6 = (m div 2^10) * 2^16 + (m mod 2^10) * 2^6
            low == (m % (2 ^ 10)) * (2 ^ 6) + idCall.filterId
        IN /\ idCall.status = "ok"
           /\ v.lo \in 0 .. (2 ^ 16 - 1)
           /\ idCall.op = "deepMergedCoaddId" => v.hi * (2 ^ 16) + v.lo = m
           /\ idCall.op = "deepCoaddId" =>
                 /\ v.hi = (m \div (2 ^ 10)) + (low \div (2 ^ 16))
                 /\ v.lo = low % (2 ^ 16)
           /\ (idCall.op = "deepMergedCoaddId" /\ idCall.tract = 1
                 /\ idCall.patchX = 2 /\ idCall.patchY = 3) => v = [hi |-> 0, lo |-> 1091]
           /\ (idCall.op = "deepCoaddId" /\ idCall.tract = 0 /\ idCall.patchX = 0
                 /\ idCall.patchY = 0 /\ idCall.filterId = 5) => v = [hi |-> 0, lo |-> 5]

C3_Witness ==
    /\ idCall.op = "deepCoaddId"
    /\ idCall.tract = 2 ^ 16 - 1 /\ idCall.patchX = 2 /\ idCall.patchY = 3
    /\ idCall.filterId = 5
    /\ idCall.status = "ok"

(* C4: whenever deepCoaddId returns a value, the filter id it added is in  *)
(* [0, 2^6), whatever filters were defined before or after the mapper was  *)
(* constructed.                                                            *)
C4_FilterFitsItsField ==
    (idCall.op = "deepCoaddId" /\ idCall.status = "ok") =>
        idCall.filterId \in 0 .. (2 ^ 6 - 1)

isPair == pairCall.op = "encoded"

\* floor(x / 2^6) and x mod 2^6 of a two-limb integer 0 <= x < 2^32
div64(x) == x.hi * (2 ^ 10) + (x.lo \div (2 ^ 6))

mod64(x) == x.lo % (2 ^ 6)

\* a two-limb integer below 2^31 as an integer
asInt(x) == x.hi * (2 ^ 16) + x.lo

sameTractPatch(a, b) == a.tract = b.tract /\ a.patchX = b.patchX /\ a.patchY = b.patchY

(* C15: for in-range dataIds with filter ids in [0, 2^6), two dataIds that *)
(* differ in tract, patch or filter get different deepCoaddIds, two that   *)
(* differ in tract or patch get different deepMergedCoaddIds, and a        *)
(* deepCoaddId decodes: floor(id / 2^6) is the deepMergedCoaddId of its    *)
(* tract and patch and id mod 2^6 is its filter id.                        *)
C15_InjectiveAndDecodable ==
    isPair =>
        /\ pairCall.deepA.status = "ok" /\ pairCall.deepB.status = "ok"
        /\ pairCall.mergedA.status = "ok" /\ pairCall.mergedB.status = "ok"
        /\ pairCall.a # pairCall.b => pairCall.deepA.value # pairCall.deepB.value
        /\ ~sameTractPatch(pairCall.a, pairCall.b) =>
              pairCall.mergedA.value # pairCall.mergedB.value
        /\ div64(pairCall.deepA.value) = asInt(pairCall.mergedA.value)
        /\ mod64(pairCall.deepA.value) = pairCall.a.filterId
        /\ div64(pairCall.deepB.value) = asInt(pairCall.mergedB.value)
        /\ mod64(pairCall.deepB.value) = pairCall.b.filterId

\* neighbours: the largest filter id of one patch, the smallest of the next
C15_Witness ==
    /\ isPair
    /\ pairCall.a = [tract |-> 1, patchX |-> 0, patchY |-> 0, filterId |-> 2 ^ 6 - 1]
    /\ pairCall.b = [tract |-> 1, patchX |-> 0, patchY |-> 1, filterId |-> 0]
    /\ pairCall.deepA.value = [hi |-> 1, lo |-> 63]
    /\ pairCall.deepB.value = [hi |-> 1, lo |-> 64]

-----------------------------------------------------------------------------
(* Properties of the translator's detector table, checked under SpecTr.    *)

hasPolicyFile(c) == c # BaseClass

tableLoaded(c) == detectorMapping[c].kind = "value"

C10_TableState ==
    /\ \A c \in Classes :
          /\ loads[c] <= 1
          /\ tableLoaded(c) <=> loads[c] = 1
          /\ tableLoaded(c) =>
                detectorMapping[c].v = read_detector_ids(cameraPolicyFile(c))
          /\ ~hasPolicyFile(c) => (loads[c] = 0 /\ detectorMapping[c] = NoneValue)
    /\ \A t \in 1 .. Len(translators) :
          ~hasPolicyFile(translators[t].cls) =>
              translators[t].cache \in {NotCached, NoneValue}
    /\ (trCall.op = "to_detector_num" /\ ~hasPolicyFile(trCall.cls)) =>
          (trCall.num = NoneValue /\ ~trCall.loaded)

C10_TableStep ==
    \A c \in Classes :
       \* once populated, never reassigned
       /\ tableLoaded(c) => detectorMapping'[c] = detectorMapping[c]
       \* read only by a call of that class that finds no table
       /\ loads'[c] # loads[c] =>
             /\ loads'[c] = loads[c] + 1
             /\ ~tableLoaded(c)
             /\ trCall'.op = "to_detector_num" /\ trCall'.cls = c /\ trCall'.loaded
       \* the first call that needs the table leaves it populated
       /\ (trCall'.op = "to_detector_num" /\ trCall'.cls = c /\ trCall'.ranBody
             /\ hasPolicyFile(c)) => detectorMapping'[c].kind = "value"

(* C10: over any sequence of to_detector_num calls on instances of a class *)
(* with a camera policy file, read_detector_ids is called at most once, by *)
(* the first call that needs the table, and the populated table is never   *)
(* reassigned; a class without a policy file never loads a table and       *)
(* always yields no detector number.                                       *)
C10_LoadedAtMostOnce == [](C10_TableState) /\ [][C10_TableStep]_vars

C10_Witness ==
    /\ Len(translators) >= 2
    /\ translators[1].cls = "ImsimTranslator" /\ translators[1].cache = Value(0)
    /\ translators[2].cls = "ImsimTranslator" /\ translators[2].cache = Value(1)
    /\ trCall.op = "to_detector_num" /\ trCall.t = 2 /\ ~trCall.loaded
    /\ loads["ImsimTranslator"] = 1

-----------------------------------------------------------------------------
(* Properties of query_raw_amp, checked under SpecQ.                       *)

isQuery == qCall.op = "query_raw_amp"

namesChannel == "channel" \in DOMAIN qCall.dataId

(* C11: query_raw_amp raises ValueError whenever the dataId names a        *)
(* channel below 1 or above 16, and then the raw query is not issued; with *)
(* a channel in 1..16, or with none, it does not raise and issues the raw  *)
(* query.                                                                  *)
C11_ChannelRangeChecked ==
    isQuery =>
        /\ (namesChannel /\ qCall.dataId["channel"] \notin 1 .. 16) =>
              /\ qCall.status = "ValueError"
              /\ ~qCall.queried
              /\ qCall.dids = <<>>
        /\ (~namesChannel \/ qCall.dataId["channel"] \in 1 .. 16) =>
              /\ qCall.status = "ok"
              /\ qCall.queried

C11_Witness ==
    /\ isQuery
    /\ namesChannel
    /\ qCall.dataId["channel"] = 0
    /\ qCall.status = "ValueError"
    /\ ~qCall.queried

\* the channels a call selects: the one the dataId names, or all of them
selected == IF namesChannel THEN <<qCall.dataId["channel"]>> ELSE [c \in 1 .. 16 |-> c]

formatNamesChannel == \E k \in 1 .. Len(qCall.format) : qCall.format[k] = "channel"

firstChannel ==
    CHOOSE k \in 1 .. Len(qCall.format) :
        qCall.format[k] = "channel" /\ \A j \in 1 .. (k - 1) : qCall.format[j] # "channel"

\* the caller's objects are as they were, and the result is the raw
\* query's tuples, each once per selected channel with the channel put in
\* at the place the format names it first
expandedAsStated ==
    /\ qCall.callerFormat = qCall.format
    /\ qCall.callerDataId = qCall.dataId
    /\ ~formatNamesChannel => qCall.dids = qCall.raw
    /\ formatNamesChannel =>
          LET n == Len(selected)
              k == firstChannel
          IN /\ Len(qCall.dids) = Len(qCall.raw) * n
             /\ \A r \in 1 .. Len(qCall.raw), c \in 1 .. n :
                   LET t == qCall.dids[(r - 1) * n + c]
                       value == qCall.raw[r]
                   IN /\ Len(t) = Len(value) + 1
                      /\ t[k] = [key |-> "channel", v |-> selected[c]]
                      /\ \A j \in 1 .. Len(value) :
                            t[IF j < k THEN j ELSE j + 1] = value[j]

timesNamed == Cardinality({k \in 1 .. Len(qCall.format) : qCall.format[k] = "channel"})

====
